---- MODULE Spec2Model ----
(***************************************************************************)
(* Model of the Leboncoin listing-extraction pipeline.                     *)
(*                                                                         *)
(* The repository holds three variants of the same Streamlit application:  *)
(*   "simple"  src/unnamed/part_000 lines 1-230   (browser only, dedup,    *)
(*             sort by price)                                              *)
(*   "margin"  src/unnamed/part_000 lines 232-732 (LeboncoinAdapter,       *)
(*             run_search, price filter, valuation, sort by margin)        *)
(*   "geo"     src/app(11).py                     (geocoding, radius       *)
(*             filter, dedup, sort by distance then price)                 *)
(*                                                                         *)
(* Specifications                                                          *)
(*   Spec          one run of an application, from the button to the       *)
(*                 stored result                                           *)
(*   SpecParse     the parsers applied to one markup                       *)
(*   SpecValuate   detection, valuation and row construction applied to    *)
(*                 one listing                                             *)
(*                                                                         *)
(* Conventions                                                             *)
(*   Optional[T]   a sequence of length <= 1: <<>> is None, <<v>> is v.    *)
(*   str           a query is a sequence of tokens (words and " ").  A     *)
(*                 title and the text of a card are sequences of           *)
(*                 characters, since patterns are matched and prices cut   *)
(*                 out character by character.  The characters are the     *)
(*                 letters of LowerCase (both cases), the digits of        *)
(*                 Digits (ASCII) and IndicDigits (any other decimal       *)
(*                 digit), "_",                                            *)
(*                 " ", "\n", "nbsp" (any other whitespace), and signs     *)
(*                 such as the currency sign, "-", "," and "(".            *)
(*                 "" is <<>>; concatenation is \o.                        *)
(*   money         listing prices are integers in euro cents (so that the  *)
(*                 division by 100 of the minor-unit heuristic is exact);  *)
(*                 negotiated prices and raw margins are in 1/10000 euro.  *)
(*   distance      haversine_km results are integers in 1/100 km; the      *)
(*                 recorded "distance (km)" is in 1/10 km (round(d, 1)).   *)
(*   round         the code rounds binary floats.  Where the decimal lies  *)
(*                 halfway between two results, the float decides, and the *)
(*                 model takes its side as an input (up) of the step.      *)
(***************************************************************************)
EXTENDS Integers, Sequences, FiniteSets, TLC

\* ------------------------------------------------------------------ bounds
\* Most page requests ((query, page) combinations) of one run.
MaxRequests == 3
\* Most ad records in a structured-data block given to the parser alone.
MaxAds == 2

\* ------------------------------------------------------- program constants
PriceThreshold == 10000
ScrollsSimple == 8
ScrollsMargin == 6
ScrollsGeo == 8
DefaultNegotiationPct == 10
DefaultDismantleBonusPct == 5

\* ------------------------------------------------------------ Optional, str
None == <<>>
Some(v) == <<v>>
IsNone(o) == o = <<>>
Val(o) == o[1]

Origin == "https://www.leboncoin.fr"
RelPaths == {"/ad/1", "/ad/2", "/ad/3", "/ad/4", "/ad/5", "/ad/6"}
Rel(p) == <<p>>
Abs(p) == <<Origin, p>>

SansTitre == <<"(", "s", "a", "n", "s", " ", "t", "i", "t", "r", "e", ")">>

\* The cased letters of the texts: each upper-case letter with the
\* lower-case letter str.lower() gives for it.
LowerCase ==
    ("A" :> "a") @@ ("B" :> "b") @@ ("C" :> "c") @@ ("D" :> "d") @@ ("E" :> "e") @@
    ("F" :> "f") @@ ("G" :> "g") @@ ("H" :> "h") @@ ("I" :> "i") @@ ("J" :> "j") @@
    ("K" :> "k") @@ ("L" :> "l") @@ ("M" :> "m") @@ ("N" :> "n") @@ ("O" :> "o") @@
    ("P" :> "p") @@ ("Q" :> "q") @@ ("R" :> "r") @@ ("S" :> "s") @@ ("T" :> "t") @@
    ("U" :> "u") @@ ("V" :> "v") @@ ("W" :> "w") @@ ("X" :> "x") @@ ("Y" :> "y") @@
    ("Z" :> "z") @@ ("É" :> "é")

\* str.lower() on one character
Lower(c) == IF c \in DOMAIN LowerCase THEN LowerCase[c] ELSE c

\* Whitespace (\s, str.isspace): the ASCII space, the line break, and "nbsp"
\* standing for any other whitespace character (U+00A0, U+202F).
IsSpace(c) == c \in {" ", "\n", "nbsp"}

\* str.strip(): leading and trailing whitespace removed
RECURSIVE LStrip(_)
LStrip(s) == IF s # <<>> /\ IsSpace(Head(s)) THEN LStrip(Tail(s)) ELSE s

RECURSIVE RStrip(_)
RStrip(s) ==
    IF s # <<>> /\ IsSpace(s[Len(s)]) THEN RStrip(SubSeq(s, 1, Len(s) - 1)) ELSE s

Strip(s) == RStrip(LStrip(s))

\* ----------------------------------------------------------- JSON values
\* A JSON value found under a key of an ad: missing (or null), a number, an
\* object {"value": n}, the empty string, a string that is a numeral
\* ("1500"), or a non-empty string that is no numeral ("abc").
Absent == [t |-> "absent", v |-> 0]
Num(n) == [t |-> "num", v |-> n]
Obj(n) == [t |-> "dict", v |-> n]
EmptyStr == [t |-> "emptystr", v |-> 0]
NumStr(n) == [t |-> "numstr", v |-> n]
BadStr == [t |-> "str", v |-> 0]

\* Python truthiness of such a value: None, 0 and "" are falsy
Truthy(j) ==
    CASE j.t = "absent" -> FALSE
      [] j.t = "num" -> j.v # 0
      [] j.t = "emptystr" -> FALSE
      [] OTHER -> TRUE

\* a or b
PyOr(a, b) == IF Truthy(a) THEN a ELSE b

\* The value under "location" of an ad.  kind is
\*   "absent"  missing, null or empty (ad.get("location") or {} gives {})
\*   "object"  a JSON object; lat and lon are its values under "lat" and
\*             "lng" ("latitude" and "longitude" are not in it), d is
\*             haversine_km from the reference point to them, in 1/100 km
\*   "other"   a non-empty value that is no object (a string, a list)
Location(kind, lat, lon, d) == [kind |-> kind, lat |-> lat, lon |-> lon, d |-> d]

NoLocation == Location("absent", Absent, Absent, 0)
At(d) == Location("object", Num(1), Num(1), d)

\* One element of searchData.ads.  isdict = FALSE is an element that is no
\* JSON object (ad.get raises AttributeError).  images is what stands under
\* "images": "absent", "objects" (a list of objects) or "strings" (a list
\* whose first element is a string).
Ad(isdict, url, shareLink, subject, title, price, priceCents, location, images) ==
    [isdict |-> isdict, url |-> url, shareLink |-> shareLink,
     subject |-> subject, title |-> title,
     price |-> price, priceCents |-> priceCents,
     location |-> location, images |-> images]

\* A child element of a card that holds one text node: its tag and the
\* characters of the text.  A character is a digit, " ", "nbsp", the
\* currency sign or any other sign standing for itself.
Node(tag, text) == [tag |-> tag, text |-> text]

\* One anchor element matched by the card selectors: href attribute ("" when
\* missing) and its text-holding children in document order.
Card(href, nodes) == [href |-> href, nodes |-> nodes]

\* Retrieved markup: the __NEXT_DATA__ script and the card anchors.
\*   next = "absent"  no such script, or an empty one
\*          "bad"     json.loads raises
\*          "nopath"  decodes, the path props.pageProps.searchData.ads is missing
\*          "ads"     decodes, ads is the array found at the path
Html(next, ads, cards) == [next |-> next, ads |-> ads, cards |-> cards]

\* ------------------------------------------------------------- Listing
\* The record built for one ad (dataclass Listing, or the dict of the two
\* other variants).  tier records which extraction tier built it.
Listing(tier, url, title, price, haslat, haslon, d) ==
    [tier |-> tier, url |-> url, title |-> title, price |-> price,
     haslat |-> haslat, haslon |-> haslon, d |-> d,
     dist |-> None,
     parts |-> <<>>, parts_value |-> 0,
     negotiated |-> None, margin |-> None, est_margin |-> None]

\* ------------------------------------------------- structured-data tier
\* price = ad.get("price") or ad.get("priceCents")
\* if isinstance(price, dict): price = price.get("value")
PriceField(ad) ==
    LET p == PyOr(ad.price, ad.priceCents)
    IN IF p.t = "dict" THEN Num(p.v) ELSE p

\* float(price) raises for a non-empty string that is no numeral
PriceRaises(ad) == PriceField(ad).t = "str"

\* if isinstance(price, (int, float)) and price and price > 10000: price = price/100
\* price = float(price) if price else None          (result in cents)
\* A numeral in a string is no int or float: it is never divided.
NormalizePrice(ad) ==
    LET p == PriceField(ad)
    IN CASE p.t = "num" /\ p.v # 0 ->
              IF p.v > PriceThreshold THEN Some(p.v) ELSE Some(p.v * 100)
         [] p.t = "numstr" -> Some(p.v * 100)
         [] OTHER -> None

\* title = ad.get("subject") or ad.get("title") or "(sans titre)"
AdTitle(ad) ==
    IF ad.subject # <<>> THEN ad.subject
    ELSE IF ad.title # <<>> THEN ad.title ELSE SansTitre

\* url = ad.get("url") or ad.get("shareLink") or ""
AdUrl(ad) == IF ad.url # <<>> THEN ad.url ELSE ad.shareLink

\* lat = loc.get("lat") or loc.get("latitude"): a falsy "lat" gives what
\* stands under "latitude", None
Coord(j) == PyOr(j, Absent)

\* lat = float(lat) if lat is not None else None: float raises for a string
\* that is no numeral and for an object
CoordRaises(j) == Coord(j).t \in {"str", "dict"}

\* Whether extracting this record raises.  After the price,
\*   parse_listings_from_html and parse_ads call loc.get(...) on what
\*     ad.get("location") or {} gave: AttributeError when it is no object;
\*   parse_ads converts the coordinates with float();
\*   parse_listings_from_html calls pics[0].get("url"): AttributeError when
\*     the first image is a string;
\*   LeboncoinAdapter.parse_listings guards both steps with isinstance.
AdRaises(variant, ad) ==
    \/ ~ad.isdict
    \/ PriceRaises(ad)
    \/ variant \in {"simple", "geo"} /\ ad.location.kind = "other"
    \/ /\ variant = "geo"
       /\ ad.location.kind = "object"
       /\ CoordRaises(ad.location.lat) \/ CoordRaises(ad.location.lon)
    \/ variant = "simple" /\ ad.images = "strings"

\* the geo variant reads location.lat / location.lng; the others do not
AdListing(variant, ad) ==
    LET haslat == variant = "geo" /\ ad.location.kind = "object"
                    /\ Coord(ad.location.lat).t \in {"num", "numstr"}
        haslon == variant = "geo" /\ ad.location.kind = "object"
                    /\ Coord(ad.location.lon).t \in {"num", "numstr"}
    IN Listing(1, AdUrl(ad), AdTitle(ad), NormalizePrice(ad), haslat, haslon,
               IF haslat /\ haslon THEN ad.location.d ELSE 0)

\* The loop "for ad in ads": the records appended before the first record
\* that raises, and whether one raised.
RECURSIVE Tier1Loop(_, _, _)
Tier1Loop(variant, ads, acc) ==
    IF ads = <<>> THEN [recs |-> acc, raised |-> FALSE]
    ELSE IF AdRaises(variant, Head(ads)) THEN [recs |-> acc, raised |-> TRUE]
    ELSE Tier1Loop(variant, Tail(ads), Append(acc, AdListing(variant, Head(ads))))

\* The whole try block of tier 1.
Tier1(variant, html) ==
    CASE html.next = "absent" -> [recs |-> <<>>, raised |-> FALSE]
      [] html.next = "bad" -> [recs |-> <<>>, raised |-> TRUE]
      [] html.next = "nopath" -> [recs |-> <<>>, raised |-> FALSE]
      [] OTHER -> Tier1Loop(variant, html.ads, <<>>)

\* ---------------------------------------------------- markup-pattern tier
\* if url.startswith("/"): url = "https://www.leboncoin.fr" + url
Absolutize(u) == IF Len(u) > 0 /\ u[1] \in RelPaths THEN <<Origin>> \o u ELSE u

\* [0-9], and the other decimal digits of the texts: the digits U+06F0 to
\* U+06F9 stand for every decimal digit that is not one of 0-9
Digits == <<"0", "1", "2", "3", "4", "5", "6", "7", "8", "9">>
IndicDigits == <<"۰", "۱", "۲", "۳", "۴", "۵", "۶", "۷", "۸", "۹">>

\* \d of a str pattern: every decimal digit
IsDigit(c) == \E i \in 1..10 : Digits[i] = c \/ IndicDigits[i] = c

\* \w of a str pattern: letters, decimal digits and the underscore
WordChars ==
    {"_"} \cup {Digits[i] : i \in 1..10} \cup {IndicDigits[i] : i \in 1..10}
          \cup DOMAIN LowerCase \cup {LowerCase[c] : c \in DOMAIN LowerCase}
IsWord(c) == c \in WordChars

\* the number a sequence of decimal digits writes
RECURSIVE Number(_)
Number(ds) ==
    IF ds = <<>> THEN 0
    ELSE 10 * Number(SubSeq(ds, 1, Len(ds) - 1))
         + (CHOOSE i \in 1..10 :
              Digits[i] = ds[Len(ds)] \/ IndicDigits[i] = ds[Len(ds)]) - 1

\* float(text), in cents: surrounding whitespace is ignored and every
\* decimal digit is read; None stands for the ValueError raised when what is
\* left is no numeral
Float(text) ==
    LET t == Strip(text)
    IN IF t # <<>> /\ \A i \in 1..Len(t) : IsDigit(t[i])
       THEN Some(Number(t) * 100) ELSE None

\* t = a.select_one("span, h2, h3")
\* title = t.get_text(strip=True) if t else "(sans titre)"
CardTitle(c) ==
    LET heads == {i \in 1..Len(c.nodes) : c.nodes[i].tag \in {"span", "h2", "h3"}}
        first == CHOOSE i \in heads : \A j \in heads : i <= j
    IN IF heads = {} THEN SansTitre ELSE Strip(c.nodes[first].text)

\* a.get_text(" ", strip=True): the stripped texts that are not empty,
\* joined by one space
RECURSIVE get_text(_)
get_text(nodes) ==
    IF nodes = <<>> THEN <<>>
    ELSE LET t == Strip(Head(nodes).text)
             rest == get_text(Tail(nodes))
         IN IF t = <<>> THEN rest
            ELSE IF rest = <<>> THEN t
            ELSE t \o <<" ">> \o rest

\* the number of characters of [\d\s] from position i on, at most n
RECURSIVE RunLen(_, _, _)
RunLen(t, i, n) ==
    IF n = 0 \/ i > Len(t) \/ ~(IsDigit(t[i]) \/ IsSpace(t[i])) THEN 0
    ELSE 1 + RunLen(t, i + 1, n - 1)

\* \s*: the first position from i on that holds no whitespace
RECURSIVE SkipSpace(_, _)
SkipSpace(t, i) == IF i <= Len(t) /\ IsSpace(t[i]) THEN SkipSpace(t, i + 1) ELSE i

\* (\d[\d\s]{0,9})\s*€ matched at position i: the position where group 1
\* ends, 0 when there is no match at i.  The quantifiers are greedy and a
\* shorter group never matches where the longest one does not.
GroupEnd(t, i) ==
    IF ~IsDigit(t[i]) THEN 0
    ELSE LET k == RunLen(t, i + 1, 9)
             j == SkipSpace(t, i + k + 1)
         IN IF j <= Len(t) /\ t[j] = "€" THEN i + k ELSE 0

\* m = re.search(r"(\d[\d\s]{0,9})\s*€", txt)
\* price = float(m.group(1).replace(" ", ""))  in try/except -> None
SearchPrice(txt) ==
    LET starts == {i \in 1..Len(txt) : GroupEnd(txt, i) > 0}
        i == CHOOSE x \in starts : \A y \in starts : x <= y
    IN IF starts = {} THEN None
       ELSE Float(SelectSeq(SubSeq(txt, i, GroupEnd(txt, i)), LAMBDA c : c # " "))

\* re.compile(r"\d+\s*€") found in a text
HasEuroAmount(t) ==
    \E i \in 1..Len(t) :
       /\ IsDigit(t[i])
       /\ SkipSpace(t, i + 1) <= Len(t)
       /\ t[SkipSpace(t, i + 1)] = "€"

\* price_el = a.find(text=re.compile(r"\d+\s*€")): the first text node in
\* which the pattern is found
\* price_num = re.sub(r"[^0-9]", "", price_el): the ASCII digits of that node
\* if price_num: price = float(price_num)
FindPrice(nodes) ==
    LET hits == {i \in 1..Len(nodes) : HasEuroAmount(nodes[i].text)}
        first == CHOOSE i \in hits : \A j \in hits : i <= j
        price_num == SelectSeq(nodes[first].text,
                               LAMBDA c : \E i \in 1..10 : Digits[i] = c)
    IN IF hits = {} \/ price_num = <<>> THEN None
       ELSE Some(Number(price_num) * 100)

\* The record of one card.  parse_listings_from_html and parse_ads search
\* the price in the text of the whole anchor; LeboncoinAdapter.parse_listings
\* takes the digits of the first text node that holds an amount.
CardListing(variant, c) ==
    Listing(2, Absolutize(c.href), CardTitle(c),
            IF variant = "margin" THEN FindPrice(c.nodes)
            ELSE SearchPrice(get_text(c.nodes)),
            FALSE, FALSE, 0)

RECURSIVE Tier2(_, _)
Tier2(variant, cards) ==
    IF cards = <<>> THEN <<>>
    ELSE <<CardListing(variant, Head(cards))>> \o Tier2(variant, Tail(cards))

\* ------------------------------------------------------------------ parse
\* LeboncoinAdapter.parse_listings: tier 2 runs when listings is empty.
parse_listings(html) ==
    LET t1 == Tier1("margin", html)
        second == t1.recs = <<>>
    IN [out |-> IF second THEN Tier2("margin", html.cards) ELSE t1.recs,
        n1 |-> Len(t1.recs), tier2 |-> second]

\* parse_ads and parse_listings_from_html: tier 1 returns from inside the try
\* block when it ends with records; otherwise the cards are appended to the
\* same list.
ParseSameList(variant, html) ==
    LET t1 == Tier1(variant, html)
        returned == ~t1.raised /\ t1.recs # <<>>
    IN [out |-> IF returned THEN t1.recs ELSE t1.recs \o Tier2(variant, html.cards),
        n1 |-> Len(t1.recs), tier2 |-> ~returned]

parse_ads(html) == ParseSameList("geo", html)

parse_listings_from_html(html) == ParseSameList("simple", html)

ParseTrace(variant, html) ==
    CASE variant = "margin" -> parse_listings(html)
      [] variant = "geo" -> parse_ads(html)
      [] OTHER -> parse_listings_from_html(html)

Parse(variant, html) == ParseTrace(variant, html).out

\* ------------------------------------------------------------- arithmetic
Max(a, b) == IF a >= b THEN a ELSE b

\* Whether the decimal x / m lies halfway between two integers.
IsTie(x, m) == 2 * (x % m) = m

\* round(): the code rounds the binary float that stands for the decimal
\* x / m.  Off a tie the result is the nearest integer.  On a tie the float
\* lies just below the decimal, just above it, or on it (then the even
\* neighbour is taken): the result is the upper neighbour when up, the lower
\* one otherwise, and up is an input the decimal does not determine.
RoundDiv(x, m, up) ==
    LET q == x \div m
        r == x % m
    IN IF 2 * r < m THEN q
       ELSE IF 2 * r > m THEN q + 1
       ELSE IF up THEN q + 1 ELSE q

\* ups holds one choice of up for each position at a tie (FALSE elsewhere).
UpAt(ups, i) == i \in DOMAIN ups /\ ups[i]

\* ------------------------------------------------- detection and valuation
\* A pattern is the tree of its expression; a node is
\*   "set"    one character of set          "any"   . (no line break)
\*   "b"      \b                            "empty" the empty expression
\*   "cat"    items[1] then items[2]        "alt"   items[1] | items[2]
\*   "opt"    items[1]?                     "star"  items[1]*
\* Ends(re, t, i) is the positions where a match of re that starts at
\* position i of t can end, in the order in which the backtracking matcher
\* tries them (alternatives left to right, quantifiers greedy): the match
\* re takes at i ends at the first of them.
RECURSIVE Ends(_, _, _)
RECURSIVE EndsEach(_, _, _)
EndsEach(re, t, ps) ==
    IF ps = <<>> THEN <<>>
    ELSE Ends(re, t, Head(ps)) \o EndsEach(re, t, Tail(ps))

Ends(re, t, i) ==
    CASE re.op = "set" -> IF i <= Len(t) /\ t[i] \in re.set THEN <<i + 1>> ELSE <<>>
      [] re.op = "any" -> IF i <= Len(t) /\ t[i] # "\n" THEN <<i + 1>> ELSE <<>>
      [] re.op = "b" ->
           IF (i > 1 /\ IsWord(t[i - 1])) # (i <= Len(t) /\ IsWord(t[i]))
           THEN <<i>> ELSE <<>>
      [] re.op = "empty" -> <<i>>
      [] re.op = "cat" -> EndsEach(re.items[2], t, Ends(re.items[1], t, i))
      [] re.op = "alt" -> Ends(re.items[1], t, i) \o Ends(re.items[2], t, i)
      [] re.op = "opt" -> Ends(re.items[1], t, i) \o <<i>>
      [] re.op = "star" ->
           EndsEach(re, t, SelectSeq(Ends(re.items[1], t, i), LAMBDA e : e > i))
             \o <<i>>

\* The pattern registry: an ordered mapping key -> rule.  A rule is its
\* pattern and what compiling it does:
\*   "ok"        it compiles
\*   "re_error"  re raises re.error (e.g. "rtx(")
\*   "overflow"  re raises OverflowError (e.g. "a{99999999999}")
Rule(key, kind, re) == [key |-> key, kind |-> kind, re |-> re]

DEFAULT_PART_PATTERNS ==
    LET In(set) == [op |-> "set", items |-> <<>>, set |-> set]
        B == [op |-> "b", items |-> <<>>, set |-> {}]
        Dot == [op |-> "any", items |-> <<>>, set |-> {}]
        Star(r) == [op |-> "star", items |-> <<r>>, set |-> {}]
        Opt(r) == [op |-> "opt", items |-> <<r>>, set |-> {}]
        Alt(a, b) == [op |-> "alt", items |-> <<a, b>>, set |-> {}]
        RECURSIVE Cat(_)
        Cat(rs) ==
          IF rs = <<>> THEN [op |-> "empty", items |-> <<>>, set |-> {}]
          ELSE IF Len(rs) = 1 THEN rs[1]
          ELSE [op |-> "cat", items |-> <<Head(rs), Cat(Tail(rs))>>, set |-> {}]
        Lit(cs) == Cat([i \in 1..Len(cs) |-> In({cs[i]})])
        S == Star(In({" ", "\n", "nbsp"}))
    IN <<
       \* \brtx\s*3070\b|\b3070ti\b
       Rule("gpu_rtx_3070", "ok",
            Alt(Cat(<<B, Lit(<<"r", "t", "x">>), S, Lit(<<"3", "0", "7", "0">>), B>>),
                Cat(<<B, Lit(<<"3", "0", "7", "0", "t", "i">>), B>>))),
       \* \brtx\s*4060\b
       Rule("gpu_rtx_4060", "ok",
            Cat(<<B, Lit(<<"r", "t", "x">>), S, Lit(<<"4", "0", "6", "0">>), B>>)),
       \* \brx\s*5700\s*xt\b
       Rule("gpu_rx_5700_xt", "ok",
            Cat(<<B, Lit(<<"r", "x">>), S, Lit(<<"5", "7", "0", "0">>), S, Lit(<<"x", "t">>), B>>)),
       \* \b(ryzen\s*5\s*5600x)\b
       Rule("cpu_ryzen_5_5600x", "ok",
            Cat(<<B, Lit(<<"r", "y", "z", "e", "n">>), S, Lit(<<"5">>), S, Lit(<<"5", "6", "0", "0", "x">>), B>>)),
       \* \b(ryzen\s*5\s*3600)\b
       Rule("cpu_ryzen_5_3600", "ok",
            Cat(<<B, Lit(<<"r", "y", "z", "e", "n">>), S, Lit(<<"5">>), S, Lit(<<"3", "6", "0", "0">>), B>>)),
       \* \bi5[- ]?12400f\b
       Rule("cpu_i5_12400f", "ok",
            Cat(<<B, Lit(<<"i", "5">>), Opt(In({"-", " "})), Lit(<<"1", "2", "4", "0", "0", "f">>), B>>)),
       \* \b(16\s*go\s*ddr4|ddr4\s*16\s*go)\b
       Rule("ram_ddr4_16", "ok",
            Cat(<<B, Alt(Cat(<<Lit(<<"1", "6">>), S, Lit(<<"g", "o">>), S, Lit(<<"d", "d", "r", "4">>)>>),
                        Cat(<<Lit(<<"d", "d", "r", "4">>), S, Lit(<<"1", "6">>), S, Lit(<<"g", "o">>)>>)), B>>)),
       \* \b(32\s*go\s*ddr4|ddr4\s*32\s*go)\b
       Rule("ram_ddr4_32", "ok",
            Cat(<<B, Alt(Cat(<<Lit(<<"3", "2">>), S, Lit(<<"g", "o">>), S, Lit(<<"d", "d", "r", "4">>)>>),
                        Cat(<<Lit(<<"d", "d", "r", "4">>), S, Lit(<<"3", "2">>), S, Lit(<<"g", "o">>)>>)), B>>)),
       \* \b(1\s*t[bo]|1to|1\s*tera)\b
       Rule("ssd_1to", "ok",
            Cat(<<B, Alt(Cat(<<Lit(<<"1">>), S, Lit(<<"t">>), In({"b", "o"})>>),
                        Alt(Lit(<<"1", "t", "o">>), Cat(<<Lit(<<"1">>), S, Lit(<<"t", "e", "r", "a">>)>>))), B>>)),
       \* \b(650w).*\b(gold)\b
       Rule("psu_650w_gold", "ok",
            Cat(<<B, Lit(<<"6", "5", "0", "w">>), Star(Dot), B, Lit(<<"g", "o", "l", "d">>), B>>)),
       \* \bb450\b
       Rule("mobo_b450", "ok",
            Cat(<<B, Lit(<<"b", "4", "5", "0">>), B>>))
       >>

\* euros per part
DEFAULT_PART_VALUES ==
    [k \in {"gpu_rtx_3070", "gpu_rtx_4060", "gpu_rx_5700_xt", "cpu_ryzen_5_5600x",
            "cpu_ryzen_5_3600", "cpu_i5_12400f", "ram_ddr4_16", "ram_ddr4_32",
            "ssd_1to", "psu_650w_gold", "mobo_b450"} |->
       CASE k = "gpu_rtx_3070" -> 300
         [] k = "gpu_rtx_4060" -> 260
         [] k = "gpu_rx_5700_xt" -> 170
         [] k = "cpu_ryzen_5_5600x" -> 140
         [] k = "cpu_ryzen_5_3600" -> 70
         [] k = "cpu_i5_12400f" -> 120
         [] k = "ram_ddr4_16" -> 45
         [] k = "ram_ddr4_32" -> 85
         [] k = "ssd_1to" -> 55
         [] k = "psu_650w_gold" -> 65
         [] k = "mobo_b450" -> 55]

\* len(re.findall(pat, lower)): the matches are taken from left to right,
\* each search starting where the last match ended; after an empty match the
\* next one must not be empty at the same position.
CountMatches(lower, pat) ==
    LET RECURSIVE Go(_, _)
        Go(i, must_advance) ==
          IF i > Len(lower) + 1 THEN 0
          ELSE LET es == SelectSeq(Ends(pat, lower, i),
                                   LAMBDA e : ~(must_advance /\ e = i))
               IN IF es = <<>> THEN Go(i + 1, FALSE)
                  ELSE 1 + Go(Head(es), Head(es) = i)
    IN Go(1, FALSE)

\* detect_parts raises what is no re.error
DetectRaises(patterns) == \E i \in 1..Len(patterns) : patterns[i].kind = "overflow"

\* detect_parts when it returns: the rules raising re.error are skipped, keys
\* without a match are left out
detect_parts(text, patterns) ==
    LET lower == [i \in 1..Len(text) |-> Lower(text[i])]
        m == [i \in 1..Len(patterns) |->
                IF patterns[i].kind = "ok" THEN CountMatches(lower, patterns[i].re)
                ELSE 0]
        hit == {i \in 1..Len(patterns) : m[i] > 0}
        keys == {patterns[i].key : i \in hit}
    IN [k \in keys |-> m[CHOOSE i \in hit : patterns[i].key = k]]

\* compute_parts_value: total += price_map.get(k, 0) * qty, euros
RECURSIVE SumParts(_, _, _)
SumParts(parts, price_map, keys) ==
    IF keys = {} THEN 0
    ELSE LET k == CHOOSE x \in keys : TRUE
         IN (IF k \in DOMAIN price_map THEN price_map[k] ELSE 0) * parts[k]
            + SumParts(parts, price_map, keys \ {k})

compute_parts_value(parts, price_map) == SumParts(parts, price_map, DOMAIN parts)

\* (mutant) ask = price_eur or 0: an unknown price is taken for a price of 0
estimate_margin_zero_ask(l, negotiation_pct, dismantle_bonus_pct) ==
    LET ask == IF IsNone(l.price) THEN 0 ELSE Val(l.price)
        negotiated == Some(Max(0, ask * (100 - negotiation_pct)))
        parts_value == l.parts_value * 100 * (100 + dismantle_bonus_pct)
    IN [l EXCEPT !.negotiated = negotiated,
                 !.margin = Some(parts_value - Val(negotiated))]

\* estimate_margin.  ask = price_eur or nan: a price of None or of 0.0 gives
\* nan.  negotiated and margin are in 1/10000 euro.
estimate_margin(l, negotiation_pct, dismantle_bonus_pct) ==
    LET asknan == IsNone(l.price) \/ Val(l.price) = 0
        negotiated == IF asknan THEN None
                      ELSE Some(Max(0, Val(l.price) * (100 - negotiation_pct)))
        parts_value == l.parts_value * 100 * (100 + dismantle_bonus_pct)
        margin == IF IsNone(negotiated) THEN None
                  ELSE Some(parts_value - Val(negotiated))
    IN [l EXCEPT !.negotiated = negotiated, !.margin = margin]

\* The body of "for lst in listings" after the price filter (run_search).
Valuate(l, patterns, price_map, negotiation_pct, dismantle_bonus_pct) ==
    LET parts == detect_parts(l.title \o <<"\n">>, patterns)
        l2 == [l EXCEPT !.parts = parts,
                        !.parts_value = compute_parts_value(parts, price_map)]
    IN estimate_margin(l2, negotiation_pct, dismantle_bonus_pct)

\* "est_margin": None if L.estimated_margin_eur is None else round(..., 2), cents
Row(l, up) ==
    [l EXCEPT !.est_margin = IF IsNone(l.margin) THEN None
                             ELSE Some(RoundDiv(Val(l.margin), 100, up))]

\* the positions whose margin lies halfway between two cents
MarginTies(rs) ==
    {i \in 1..Len(rs) : ~IsNone(rs[i].margin) /\ IsTie(Val(rs[i].margin), 100)}

\* ----------------------------------------------------- price filter (margin)
\* (mutant) a listing of unknown price is filtered out
PriceFilterDropsUnknown(l, price_min, price_max) ==
    /\ ~IsNone(l.price)
    /\ ~(price_min # 0 /\ Val(l.price) < price_min * 100)
    /\ ~(price_max # 0 /\ Val(l.price) > price_max * 100)

\* if lst.price_eur is not None:
\*     if price_min and lst.price_eur < price_min: continue
\*     if price_max and lst.price_eur > price_max: continue
PriceFilterPass(l, price_min, price_max) ==
    IsNone(l.price)
    \/ (~(price_min # 0 /\ Val(l.price) < price_min * 100)
        /\ ~(price_max # 0 /\ Val(l.price) > price_max * 100))

\* ------------------------------------------------------- distance (geo)
\* d = haversine_km(...) if lat and lon are there; ad["distance (km)"] =
\* round(d, 1) if d is not None else None
WithDistance(l, up) ==
    [l EXCEPT !.dist = IF l.haslat /\ l.haslon THEN Some(RoundDiv(l.d, 10, up)) ELSE None]

\* the positions whose distance lies halfway between two tenths of a km
DistanceTies(ls) ==
    {i \in 1..Len(ls) : ls[i].haslat /\ ls[i].haslon /\ IsTie(ls[i].d, 10)}

\* (mutant) a listing of unknown distance is filtered out
RadiusKeepKnownOnly(l, radius_km) == ~IsNone(l.dist) /\ Val(l.dist) <= radius_km * 10

\* keep = df["distance (km)"].isna() | (df["distance (km)"] <= radius_km)
RadiusKeep(l, radius_km) == IsNone(l.dist) \/ Val(l.dist) <= radius_km * 10

\* --------------------------------------------------------- deduplication
\* (mutant) rows without a url are never taken for duplicates
DropDuplicatesWithUrl(rows, seen) ==
    LET RECURSIVE Go(_, _)
        Go(rs, sn) ==
          IF rs = <<>> THEN <<>>
          ELSE IF Head(rs).url # <<>> /\ Head(rs).url \in sn THEN Go(Tail(rs), sn)
          ELSE <<Head(rs)>> \o Go(Tail(rs), sn \cup {Head(rs).url})
    IN Go(rows, seen)

\* drop_duplicates(subset=["url"]): the first row of each url is kept
RECURSIVE DropDuplicates(_, _)
DropDuplicates(rows, seen) ==
    IF rows = <<>> THEN <<>>
    ELSE IF Head(rows).url \in seen THEN DropDuplicates(Tail(rows), seen)
    ELSE <<Head(rows)>> \o DropDuplicates(Tail(rows), seen \cup {Head(rows).url})

\* ---------------------------------------------------------------- sorting
\* (mutant) NaN first
BeforeNaFirst(a, b) == ~IsNone(b) /\ (IsNone(a) \/ Val(a) < Val(b))

\* a strictly before b for an ascending key with NaN last
Before(a, b) == ~IsNone(a) /\ (IsNone(b) \/ Val(a) < Val(b))
\* a strictly before b for a descending key with NaN last
BeforeDesc(a, b) == ~IsNone(a) /\ (IsNone(b) \/ Val(a) > Val(b))

\* sort_values("prix (€)", ascending=True, na_position="last")
ByPrice(x, y) == Before(x.price, y.price)
\* sort_values(["est_margin"], ascending=[False])
ByMargin(x, y) == BeforeDesc(x.est_margin, y.est_margin)
\* sort_values(["distance (km)", "prix (€)"], ascending=[True, True])
ByDistancePrice(x, y) ==
    Before(x.dist, y.dist) \/ (x.dist = y.dist /\ Before(x.price, y.price))

\* the comparison of the sort named by its columns
Lt(by, x, y) ==
    CASE by = "price" -> ByPrice(x, y)
      [] by = "est_margin" -> ByMargin(x, y)
      [] by = "distance_price" -> ByDistancePrice(x, y)

\* stable insertion of x into the sorted sequence s
RECURSIVE Insert(_, _, _)
Insert(by, x, s) ==
    IF s = <<>> THEN <<x>>
    ELSE IF Lt(by, x, Head(s)) THEN <<x>> \o s
    ELSE <<Head(s)>> \o Insert(by, x, Tail(s))

RECURSIVE SortFrom(_, _, _)
SortFrom(by, rows, acc) ==
    IF rows = <<>> THEN acc ELSE SortFrom(by, Tail(rows), Insert(by, Head(rows), acc))

sort_values(by, rows) == SortFrom(by, rows, <<>>)

\* ------------------------------------------------------ rendering session
\* The calls one rendering retrieval makes, in order.
Scrolls(n) == [i \in 1..n |-> "scroll"]

StepsBefore == <<"launch", "new_context", "new_page", "goto">>
StepsAfter == <<"content", "close_context", "close_browser">>

BrowserSteps(variant) ==
    CASE variant = "margin" -> StepsBefore \o Scrolls(ScrollsMargin) \o <<"wait">> \o StepsAfter
      [] variant = "geo" -> StepsBefore \o Scrolls(ScrollsGeo) \o StepsAfter
      [] OTHER -> StepsBefore \o Scrolls(ScrollsSimple) \o <<"wait">> \o StepsAfter

\* The steps an injected fault can hit ("none": no call raises).
Faults == {"none", "launch", "new_context", "new_page", "goto", "scroll",
           "wait", "content", "close_context", "close_browser"}

NoSession == [browser |-> FALSE, context |-> FALSE, navigated |-> FALSE, html |-> None]

\* The effect of one call that returns.
StepEffect(step, s, page) ==
    CASE step = "launch" -> [s EXCEPT !.browser = TRUE]
      [] step = "new_context" -> [s EXCEPT !.context = TRUE]
      [] step = "goto" -> [s EXCEPT !.navigated = TRUE]
      [] step = "content" -> [s EXCEPT !.html = Some(page)]
      [] step = "close_context" -> [s EXCEPT !.context = FALSE]
      [] step = "close_browser" -> [s EXCEPT !.browser = FALSE]
      [] OTHER -> s

\* The body of "with sync_playwright() as pw:".  The first call named fault
\* raises; page.wait_for_selector has its own try/except and is passed over;
\* page.goto has issued its request when it raises (a timeout).
RECURSIVE SessionBody(_, _, _, _)
SessionBody(steps, fault, s, page) ==
    IF steps = <<>> THEN [s |-> s, raised |-> FALSE]
    ELSE LET step == Head(steps)
         IN IF step = fault /\ step = "wait"
            THEN SessionBody(Tail(steps), "none", s, page)
            ELSE IF step = fault
            THEN [s |-> IF step = "goto" THEN [s EXCEPT !.navigated = TRUE] ELSE s,
                  raised |-> TRUE]
            ELSE SessionBody(Tail(steps), fault, StepEffect(step, s, page), page)

\* (mutant) leaving the with block stops nothing
WithExitLeak(s) == s

\* Leaving the with block, normally or by an exception: Playwright is
\* stopped, which ends the browser it launched and every context of it.
WithExit(s) == [s EXCEPT !.browser = FALSE, !.context = FALSE]

\* try: with ...: ... return html / except Exception: return None
BrowserFetch(variant, fault, page) ==
    LET body == SessionBody(BrowserSteps(variant), fault, NoSession, page)
        after == WithExit(body.s)
    IN [html |-> IF body.raised THEN None ELSE after.html,
        browser |-> after.browser, context |-> after.context,
        navigated |-> after.navigated, raised |-> FALSE]

NotLaunched ==
    [html |-> None, browser |-> FALSE, context |-> FALSE,
     navigated |-> FALSE, raised |-> FALSE]

\* LeboncoinAdapter.fetch_page_browser: if not PLAYWRIGHT_OK: return None
fetch_page_browser(pw_ok, fault, page) ==
    IF pw_ok THEN BrowserFetch("margin", fault, page) ELSE NotLaunched

\* fetch_playwright: ok, err = ensure_chromium_if_needed(); if not ok: return None
fetch_playwright(pw_ok, fault, page) ==
    IF pw_ok THEN BrowserFetch("geo", fault, page) ELSE NotLaunched

\* fetch_html_with_browser: playwright is imported unconditionally
fetch_html_with_browser(fault, page) == BrowserFetch("simple", fault, page)

\* ---------------------------------------------------- lightweight retrieval
\* What requests.get does: a 200 answer, another status, a timeout or a
\* transport error (both requests.RequestException), or an exception that is
\* no RequestException.
Outcomes == {"ok", "status", "timeout", "transport", "other"}

\* LeboncoinAdapter.fetch_page_requests: except requests.RequestException
fetch_page_requests(outcome, page) ==
    [html |-> IF outcome = "ok" THEN Some(page) ELSE None,
     browser |-> FALSE, context |-> FALSE, navigated |-> TRUE,
     raised |-> outcome = "other"]

\* fetch_requests: except Exception
fetch_requests(outcome, page) ==
    [html |-> IF outcome = "ok" THEN Some(page) ELSE None,
     browser |-> FALSE, context |-> FALSE, navigated |-> TRUE,
     raised |-> FALSE]

\* --------------------------------------------------------- request builder
\* requests.utils.quote / urllib.parse.quote_plus on the tokens of a text
Quote(s) == [i \in 1..Len(s) |-> IF s[i] = " " THEN "%20" ELSE s[i]]
QuotePlus(s) == [i \in 1..Len(s) |-> IF s[i] = " " THEN "+" ELSE s[i]]

\* The query string of a search locator: its parameters, None for a
\* parameter that is left out.  price is the token "<lo>-<hi>", hi being
\* None for the empty upper bound "<lo>-".
Locator(text, pageno, price, locations) ==
    [text |-> text, page |-> pageno, price |-> price, locations |-> locations]

\* LeboncoinAdapter.build_search_url; price_min and price_max are Optional
LeboncoinAdapter_build_search_url(query, locations, price_min, price_max, pageno) ==
    Locator(Quote(Strip(query)), pageno,
            IF IsNone(price_min) THEN None
            ELSE Some([lo |-> Val(price_min), hi |-> price_max]),
            IF locations # <<>> THEN Some(Quote(locations)) ELSE None)

\* build_search_url of the two other variants: text, page, locations
build_search_url(query, locations, pageno) ==
    Locator(QuotePlus(Strip(query)), pageno, None,
            IF locations # <<>> /\ Strip(locations) # <<>>
            THEN Some(QuotePlus(Strip(locations))) ELSE None)

\* price_min if price_min else None
OrNone(n) == IF n # 0 THEN Some(n) ELSE None

\* ------------------------------------------------------- origin's answers
\* The pages the origin serves in the runs below.
AdGpu ==
    Ad(TRUE, Abs("/ad/1"), <<>>, <<"R", "T", "X", "3", "0", "7", "0">>, <<>>,
       Num(150000), Absent,
       At(2004), "objects")
\* "lat" is missing
AdNoPrice ==
    Ad(TRUE, Rel("/ad/2"), <<>>, <<>>, <<"P", "C">>, Absent, Absent,
       Location("object", Absent, Num(1), 0), "absent")
AdGpuAgain ==
    Ad(TRUE, Abs("/ad/1"), <<>>, <<"r", "t", "x", "3", "0", "7", "0", " ", "B", "4", "5", "0">>,
       <<>>, Obj(2000), Absent,
       At(500), "absent")
\* 900.05 EUR, 20.05 km away
AdFar ==
    Ad(TRUE, Abs("/ad/3"), <<>>, <<"P", "C">>, <<>>, Num(90005), Absent,
       At(2005), "objects")
AdCheap ==
    Ad(TRUE, <<>>, Abs("/ad/5"), <<"B", "4", "5", "0">>, <<>>, Absent, Num(100),
       At(1200), "absent")
AdBroken ==
    Ad(FALSE, <<>>, <<>>, <<>>, <<>>, Absent, Absent, NoLocation, "absent")
\* two ads that carry neither "url" nor "shareLink"
AdNoUrl ==
    Ad(TRUE, <<>>, <<>>, <<"P", "C">>, <<>>, Num(2000), Absent, At(800), "absent")
AdNoUrlToo ==
    Ad(TRUE, <<>>, <<>>, <<"B", "4", "5", "0">>, <<>>, Num(50), Absent, NoLocation, "absent")

\* <a href="/ad/2"><span>pc</span><p>300 €</p></a>
CardPc ==
    Card(Rel("/ad/2"), <<Node("span", <<"p", "c">>),
                         Node("p", <<"3", "0", "0", " ", "€">>)>>)
\* <a href="/ad/4"></a>
CardBare == Card(Rel("/ad/4"), <<>>)
\* <a href="/ad/4"><span>B450</span><p>0 €</p></a>
CardFree ==
    Card(Rel("/ad/4"), <<Node("span", <<"B", "4", "5", "0">>),
                         Node("p", <<"0", " ", "€">>)>>)
\* <a href="/ad/5"><h2> pc </h2><p>1&#8239;200&nbsp;€</p></a>
CardNbsp ==
    Card(Rel("/ad/5"), <<Node("h2", <<" ", "p", "c", " ">>),
                         Node("p", <<"1", "nbsp", "2", "0", "0", "nbsp", "€">>)>>)
\* <a href="/ad/3"><p>300 € au lieu de 450</p></a>
CardWas ==
    Card(Rel("/ad/3"),
         <<Node("p", <<"3", "0", "0", " ", "€", " ", "a", "u", " ", "4", "5", "0">>)>>)
\* <a href="/ad/6"><span>Rtx 3070</span><p>3&#1776; €</p></a>
CardIndic ==
    Card(Rel("/ad/6"), <<Node("span", <<"R", "t", "x", " ", "3", "0", "7", "0">>),
                         Node("p", <<"3", "۰", " ", "€">>)>>)

Pages ==
    <<Html("ads", <<AdGpu, AdNoPrice, AdNoUrl>>, <<>>),
      Html("ads", <<AdGpuAgain, AdFar>>, <<CardPc>>),
      Html("absent", <<>>, <<CardPc, CardFree>>),
      Html("ads", <<AdNoUrlToo, AdCheap, AdBroken>>, <<CardBare>>)>>



\* ------------------------------------------------------------------ state
VARIABLES
    variant,    \* which of the three applications runs
    cfg,        \* the sidebar inputs of the run
    pc,         \* where the run is
    qi,         \* index of the current query in qlist (1 in the other variants)
    page,       \* current page number
    html,       \* what the retrieval of the current request returned
    rows,       \* all_listings / all_rows / rows
    hist,       \* per finished request, the page retrieved (0: no content)
    result,     \* the DataFrame stored in st.session_state
    session,    \* browser and context left by the last rendering retrieval
    lastFetch,  \* strategy and outcome of the last retrieval of this request
    nreq,       \* requests issued to the origin so far
    lastNet,    \* last of: a request issued, a throttle sleep
    urls,       \* the search locators built so far, one per loop iteration
    pIn,        \* parser checked alone: the markup
    pVariant,   \* parser checked alone: the variant
    pOut,       \* parser checked alone: what parse returned
    vIn,        \* valuation checked alone: listing, registry, values, percentages
    vOut        \* valuation checked alone: the row built, or that detection raised

runVars == <<variant, cfg, pc, qi, page, html, rows, hist, result, session,
             lastFetch, nreq, lastNet, urls>>
parseVars == <<pIn, pVariant, pOut>>
valVars == <<vIn, vOut>>
aloneVars == <<pIn, pVariant, pOut, vIn, vOut>>
vars == <<variant, cfg, pc, qi, page, html, rows, hist, result, session,
          lastFetch, nreq, lastNet, urls, pIn, pVariant, pOut, vIn, vOut>>

Variants == {"simple", "margin", "geo"}

\* (Prix min, Prix max) of the sidebar; 0 is "no bound" (price_min if price_min else None)
PriceBounds == {<<0, 0>>, <<0, 1500>>, <<1000, 0>>, <<1000, 1500>>}
\* Rayon (km)
Radii == {20, 30}
\* use_browser / mode, and whether Playwright is usable
FetchModes == {<<FALSE, TRUE>>, <<TRUE, TRUE>>, <<TRUE, FALSE>>}

\* The keywords of the sidebar's default value.
Keywords == <<<<"rtx">>, <<"ryzen">>, <<"pc">>, <<"rx">>, <<"i5">>, <<"rtx4060">>>>

\* What can be typed as the one keyword of the simple and geo variants.
SingleQueries == {<<"rtx">>, <<" ", "rtx", " ">>, <<>>, <<" ">>}

\* What queries.split(",") can give for n keywords: the keywords; the
\* keywords padded with blanks, between a whitespace-only piece and an empty
\* one; for n = 0 an empty piece or a whitespace-only one.
QueryLists(n) ==
    IF n = 0 THEN {<<<<>>>>, <<<<" ">>>>}
    ELSE {SubSeq(Keywords, 1, n),
          <<<<" ">>>> \o [i \in 1..n |-> <<" ">> \o Keywords[i] \o <<" ">>] \o <<<<>>>>}

\* qlist = [q.strip() for q in queries.split(",") if q.strip()]
QList(queries) ==
    LET kept == SelectSeq(queries, LAMBDA q : Strip(q) # <<>>)
    IN [i \in 1..Len(kept) |-> Strip(kept[i])]

\* qlist is what the run loops over: run_search's qlist, or the one keyword
\* of the two other variants as it was typed.
Cfg(v, queries, pages, mode, bounds, radius_km, geo_ok) ==
    [queries |-> queries,
     qlist |-> IF v = "margin" THEN QList(queries) ELSE queries,
     nq |-> IF v = "margin" THEN Len(QList(queries)) ELSE 1,
     pages |-> pages, use_browser |-> mode[1], pw_ok |-> mode[2],
     price_min |-> bounds[1], price_max |-> bounds[2],
     radius_km |-> radius_km, geo_ok |-> geo_ok]

Configs(v) ==
    CASE v = "simple" ->
           {Cfg(v, <<q>>, p, <<TRUE, TRUE>>, <<0, 0>>, 0, TRUE) :
              q \in SingleQueries, p \in 1..MaxRequests}
      [] v = "margin" ->
           UNION {{Cfg(v, qs, np[2], m, b, 0, TRUE) : qs \in QueryLists(np[1])} :
              np \in {x \in (0..MaxRequests) \X (1..MaxRequests) :
                         x[1] * x[2] <= MaxRequests /\ (x[1] = 0 => x[2] = 1)},
              m \in FetchModes, b \in PriceBounds}
      [] OTHER ->
           {Cfg(v, <<q>>, p, m, <<0, 0>>, r, g) :
              q \in SingleQueries, p \in 1..MaxRequests, m \in FetchModes,
              r \in Radii, g \in BOOLEAN}

\* "Zone" / "Ville" of the sidebar, at their default values
Locations(v) ==
    CASE v = "geo" -> <<"Chartres">>
      [] OTHER -> <<"France">>

\* The locator of the current (query, page) of the loop.
BuildUrl(v, c, q, pageno) ==
    IF v = "margin"
    THEN LeboncoinAdapter_build_search_url(c.qlist[q], Locations(v), OrNone(c.price_min),
                                           OrNone(c.price_max), pageno)
    ELSE build_search_url(c.qlist[q], Locations(v), pageno)

NoFetch == [strategy |-> "none", outcome |-> "none"]
Closed == [browser |-> FALSE, context |-> FALSE]

ParseIdle ==
    /\ pIn = Html("absent", <<>>, <<>>)
    /\ pVariant = "simple"
    /\ pOut = None

\* The inputs of one pass of the body of "for lst in listings".
ValuationInput(l, patterns, price_map, negotiation_pct, dismantle_bonus_pct) ==
    [l |-> l, patterns |-> patterns, price_map |-> price_map,
     negotiation_pct |-> negotiation_pct, dismantle_bonus_pct |-> dismantle_bonus_pct]

ValIdle ==
    /\ vIn = ValuationInput(Listing(2, <<>>, SansTitre, None, FALSE, FALSE, 0),
                            DEFAULT_PART_PATTERNS, DEFAULT_PART_VALUES,
                            DefaultNegotiationPct, DefaultDismantleBonusPct)
    /\ vOut = None

Init ==
    /\ variant \in Variants
    /\ cfg \in Configs(variant)
    /\ pc = IF variant = "geo" THEN "geocode"
            ELSE IF cfg.nq = 0 THEN "post" ELSE "fetch"
    /\ qi = 1
    /\ page = 1
    /\ html = None
    /\ rows = <<>>
    /\ hist = <<>>
    /\ result = <<>>
    /\ session = Closed
    /\ lastFetch = NoFetch
    /\ nreq = 0
    /\ lastNet = "none"
    /\ urls = <<>>
    /\ ParseIdle
    /\ ValIdle

\* ---------------------------------------------------------------- actions
\* (mutant) the run goes on without a reference point
GeocodeProceeds ==
    /\ pc = "geocode"
    /\ pc' = "fetch"
    /\ UNCHANGED <<variant, cfg, qi, page, html, rows, hist, result, session,
                   lastFetch, nreq, lastNet, urls>>
    /\ UNCHANGED aloneVars

\* geo = geocode_city(city); if not geo: st.error(...) and nothing else runs
Geocode ==
    /\ pc = "geocode"
    /\ pc' = IF cfg.geo_ok THEN "fetch" ELSE "done"
    /\ UNCHANGED <<variant, cfg, qi, page, html, rows, hist, result, session,
                   lastFetch, nreq, lastNet, urls>>
    /\ UNCHANGED aloneVars

\* The fetcher's return value taken into the run's state.
Fetched(r, strategy, outcome) ==
    /\ html' = r.html
    /\ session' = [browser |-> r.browser, context |-> r.context]
    /\ lastFetch' = [strategy |-> strategy, outcome |-> outcome]
    /\ nreq' = IF r.navigated THEN nreq + 1 ELSE nreq
    /\ lastNet' = IF r.navigated THEN "request" ELSE lastNet

\* The rendering retrieval of the current request, after its locator is built.
FetchBrowser ==
    /\ pc = "fetch"
    /\ cfg.use_browser
    /\ urls' = Append(urls, BuildUrl(variant, cfg, qi, page))
    /\ \E fault \in Faults, p \in 1..Len(Pages) :
         LET r == CASE variant = "margin" -> fetch_page_browser(cfg.pw_ok, fault, p)
                    [] variant = "geo" -> fetch_playwright(cfg.pw_ok, fault, p)
                    [] OTHER -> fetch_html_with_browser(fault, p)
         IN /\ Fetched(r, "browser", fault)
            /\ pc' = IF variant = "margin" /\ IsNone(r.html) THEN "fallback" ELSE "check"
    /\ UNCHANGED <<variant, cfg, qi, page, rows, hist, result>>
    /\ UNCHANGED aloneVars

\* The lightweight retrieval of the current request: the only strategy, or
\* (run_search) the one tried when the rendering retrieval returned nothing.
FetchRequests ==
    /\ \/ /\ pc = "fetch" /\ ~cfg.use_browser
          /\ urls' = Append(urls, BuildUrl(variant, cfg, qi, page))
       \/ /\ pc = "fallback"
          /\ urls' = urls
    /\ \E outcome \in Outcomes, p \in 1..Len(Pages) :
         LET r == IF variant = "margin" THEN fetch_page_requests(outcome, p)
                  ELSE fetch_requests(outcome, p)
         IN /\ Fetched(r, "requests", outcome)
            /\ pc' = IF r.raised THEN "aborted" ELSE "check"
    /\ UNCHANGED <<variant, cfg, qi, page, rows, hist, result>>
    /\ UNCHANGED aloneVars

\* time.sleep(throttle), then the next (query, page) of the two for loops
SleepAndAdvance ==
    /\ lastNet' = "sleep"
    /\ lastFetch' = NoFetch
    /\ html' = None
    /\ IF page < cfg.pages
       THEN /\ page' = page + 1
            /\ qi' = qi
            /\ pc' = "fetch"
       ELSE IF qi < cfg.nq
       THEN /\ qi' = qi + 1
            /\ page' = 1
            /\ pc' = "fetch"
       ELSE /\ pc' = "post"
            /\ UNCHANGED <<qi, page>>

\* (mutant) a request without content ends the run
NoContentAborts ==
    /\ pc = "check"
    /\ IsNone(html)
    /\ pc' = "aborted"
    /\ UNCHANGED <<variant, cfg, qi, page, html, rows, hist, result, session,
                   lastFetch, nreq, lastNet, urls>>
    /\ UNCHANGED aloneVars

\* if not html: st.info(...); time.sleep(throttle); continue
NoContent ==
    /\ pc = "check"
    /\ IsNone(html)
    /\ hist' = Append(hist, 0)
    /\ SleepAndAdvance
    /\ UNCHANGED <<variant, cfg, rows, result, session, nreq, urls>>
    /\ UNCHANGED aloneVars

\* What one retrieved page adds to the collected rows.
Collected(v, c, p, ups) ==
    CASE v = "margin" ->
           LET kept == SelectSeq(Parse(v, Pages[p]),
                                 LAMBDA l : PriceFilterPass(l, c.price_min, c.price_max))
           IN [i \in 1..Len(kept) |->
                  Valuate(kept[i], DEFAULT_PART_PATTERNS, DEFAULT_PART_VALUES,
                          DefaultNegotiationPct, DefaultDismantleBonusPct)]
      [] v = "geo" -> LET ls == Parse(v, Pages[p])
                      IN [i \in 1..Len(ls) |-> WithDistance(ls[i], UpAt(ups, i))]
      [] OTHER -> Parse(v, Pages[p])

\* parse, (filter, valuate,) collect; then the throttle sleep
ParseAndCollect ==
    /\ pc = "check"
    /\ ~IsNone(html)
    /\ \E ups \in [IF variant = "geo"
                   THEN DistanceTies(Parse(variant, Pages[Val(html)])) ELSE {}
                   -> BOOLEAN] :
         rows' = rows \o Collected(variant, cfg, Val(html), ups)
    /\ hist' = Append(hist, Val(html))
    /\ SleepAndAdvance
    /\ UNCHANGED <<variant, cfg, result, session, nreq, urls>>
    /\ UNCHANGED aloneVars

\* The DataFrame built after the loop.
PostSimple(rs) ==
    IF rs = <<>> THEN <<>>
    ELSE LET d == DropDuplicates(rs, {})
         IN IF \E i \in 1..Len(d) : ~IsNone(d[i].price)
            THEN sort_values("price", d) ELSE d

PostMargin(rs, ups) ==
    sort_values("est_margin", [i \in 1..Len(rs) |-> Row(rs[i], UpAt(ups, i))])

PostGeo(rs, radius_km) ==
    sort_values("distance_price",
                DropDuplicates(SelectSeq(rs, LAMBDA l : RadiusKeep(l, radius_km)), {}))

PostProcess(v, c, rs, ups) ==
    CASE v = "margin" -> PostMargin(rs, ups)
      [] v = "geo" -> PostGeo(rs, c.radius_km)
      [] OTHER -> PostSimple(rs)

Finish ==
    /\ pc = "post"
    /\ \E ups \in [IF variant = "margin" THEN MarginTies(rows) ELSE {} -> BOOLEAN] :
         result' = PostProcess(variant, cfg, rows, ups)
    /\ pc' = "done"
    /\ UNCHANGED <<variant, cfg, qi, page, html, rows, hist, session,
                   lastFetch, nreq, lastNet, urls>>
    /\ UNCHANGED aloneVars

Next == Geocode \/ FetchBrowser \/ FetchRequests \/ NoContent \/ ParseAndCollect \/ Finish

Spec == Init /\ [][Next]_vars

\* -------------------------------------------------- the parser on its own
PcAd(price, priceCents, location, images) ==
    Ad(TRUE, Rel("/ad/3"), <<>>, <<"P", "C">>, <<>>, price, priceCents, location, images)

AdSamples ==
    {AdGpu, AdNoPrice, AdBroken, AdCheap,
     PcAd(Num(0), Absent, NoLocation, "absent"),
     PcAd(Num(1500), Absent, NoLocation, "absent"),
     PcAd(Obj(10000), Absent, NoLocation, "absent"),
     PcAd(Num(10001), Absent, NoLocation, "absent"),
     PcAd(Obj(150000), Absent, NoLocation, "absent"),
     PcAd(BadStr, Absent, NoLocation, "absent"),
     PcAd(EmptyStr, Absent, NoLocation, "absent"),
     PcAd(EmptyStr, Num(20000), NoLocation, "absent"),
     PcAd(NumStr(15000), Absent, NoLocation, "absent"),
     PcAd(Num(300), Absent, Location("other", Absent, Absent, 0), "absent"),
     PcAd(Num(300), Absent, Location("object", BadStr, Num(1), 0), "absent"),
     PcAd(Num(300), Absent, Location("object", Num(0), NumStr(1), 0), "absent"),
     PcAd(Num(300), Absent, NoLocation, "strings")}

RECURSIVE SeqsUpTo(_, _)
SeqsUpTo(S, n) ==
    IF n = 0 THEN {<<>>}
    ELSE LET shorter == SeqsUpTo(S, n - 1)
         IN shorter \cup {Append(s, x) : s \in {t \in shorter : Len(t) = n - 1}, x \in S}

ParseInputs ==
    {Html("absent", <<>>, cs) : cs \in {<<>>, <<CardPc>>, <<CardPc, CardBare>>,
                                        <<CardFree, CardNbsp, CardWas>>,
                                        <<CardIndic>>}}
    \cup {Html(k, <<>>, cs) : k \in {"bad", "nopath"}, cs \in {<<>>, <<CardPc>>}}
    \cup {Html("ads", as, cs) : as \in SeqsUpTo(AdSamples, MaxAds), cs \in {<<>>, <<CardPc>>}}

RunIdle ==
    /\ variant = "simple"
    /\ cfg = Cfg("simple", <<<<"rtx">>>>, 1, <<TRUE, TRUE>>, <<0, 0>>, 0, TRUE)
    /\ pc = "idle"
    /\ qi = 1
    /\ page = 1
    /\ html = None
    /\ rows = <<>>
    /\ hist = <<>>
    /\ result = <<>>
    /\ session = Closed
    /\ lastFetch = NoFetch
    /\ nreq = 0
    /\ lastNet = "none"
    /\ urls = <<>>

InitParse ==
    /\ RunIdle
    /\ ValIdle
    /\ pIn \in ParseInputs
    /\ pVariant \in Variants
    /\ pOut = None

\* parse applied to the markup
ParseStep ==
    /\ IsNone(pOut)
    /\ pOut' = Some(ParseTrace(pVariant, pIn))
    /\ UNCHANGED <<pIn, pVariant>>
    /\ UNCHANGED valVars
    /\ UNCHANGED runVars

NextParse == ParseStep

SpecParse == InitParse /\ [][NextParse]_vars

\* ----------------------------------- detection and valuation on their own
\* Listings as parse returns them: titles with none, one and several parts
\* ("PC", "RTX3070", "rtx3070 B450 RTX3070", "3070ti", "Rtx 3070,",
\* "ryzen 5 5600x 650w gold"), prices unknown, 0 (a card "0 €"), and known;
\* with 100.05 EUR the margin lies halfway between two cents.
SampleTitles ==
    {<<"P", "C">>,
     <<"R", "T", "X", "3", "0", "7", "0">>,
     <<"r", "t", "x", "3", "0", "7", "0", " ", "B", "4", "5", "0", " ",
       "R", "T", "X", "3", "0", "7", "0">>,
     <<"3", "0", "7", "0", "t", "i">>,
     <<"R", "t", "x", " ", "3", "0", "7", "0", ",">>,
     <<"r", "y", "z", "e", "n", " ", "5", " ", "5", "6", "0", "0", "x", " ",
       "6", "5", "0", "w", " ", "g", "o", "l", "d">>}
SamplePrices == {None, Some(0), Some(10005), Some(30000), Some(150000)}

SampleListings ==
    {Listing(2, Abs("/ad/1"), t, p, FALSE, FALSE, 0) : t \in SampleTitles, p \in SamplePrices}

\* Registries as the "Regex JSON" text area can give them: the default one,
\* and the default one with a rule that does not compile before, between or
\* after its rules.  A rule that does not compile matches nothing; left in
\* the registry as if it compiled, it would match what its tree matches.
Registries ==
    {DEFAULT_PART_PATTERNS,
     <<Rule("bad", "re_error", DEFAULT_PART_PATTERNS[1].re)>> \o DEFAULT_PART_PATTERNS,
     <<DEFAULT_PART_PATTERNS[1], Rule("bad", "re_error", DEFAULT_PART_PATTERNS[11].re)>>
       \o Tail(DEFAULT_PART_PATTERNS),
     DEFAULT_PART_PATTERNS \o <<Rule("huge", "overflow", DEFAULT_PART_PATTERNS[11].re)>>}

\* Value tables as the sidebar can give them.
PriceMaps ==
    {DEFAULT_PART_VALUES,
     [DEFAULT_PART_VALUES EXCEPT !["gpu_rtx_3070"] = 0, !["mobo_b450"] = 60]}

\* Positions of the two sliders (0..30 each).
NegotiationPcts == {0, 10, 30}
BonusPcts == {0, 5, 30}

InitValuate ==
    /\ RunIdle
    /\ ParseIdle
    /\ vIn \in {ValuationInput(l, r, m, n, b) :
                   l \in SampleListings, r \in Registries, m \in PriceMaps,
                   n \in NegotiationPcts, b \in BonusPcts}
    /\ vOut = None

\* lines 637-643 of run_search and the row built of the listing (648-662)
ValuateStep ==
    /\ IsNone(vOut)
    /\ \E up \in BOOLEAN :
       vOut' = Some(IF DetectRaises(vIn.patterns)
                    THEN [raised |-> TRUE, row |-> vIn.l]
                    ELSE [raised |-> FALSE,
                          row |-> Row(Valuate(vIn.l, vIn.patterns, vIn.price_map,
                                              vIn.negotiation_pct,
                                              vIn.dismantle_bonus_pct), up)])
    /\ UNCHANGED vIn
    /\ UNCHANGED parseVars
    /\ UNCHANGED runVars

NextValuate == ValuateStep

SpecValuate == InitValuate /\ [][NextValuate]_vars

\* =================================================================== claims
\* What the parser extracted of a listing, whatever was added to it later.
Core(l) == [tier |-> l.tier, url |-> l.url, title |-> l.title, price |-> l.price]

Cores(ls) == [i \in 1..Len(ls) |-> Core(ls[i])]

\* A price bound of the sidebar is configured when it is not 0.
WithinConfiguredBounds(l, c) ==
    IsNone(l.price)
    \/ ((c.price_min = 0 \/ Val(l.price) >= c.price_min * 100)
        /\ (c.price_max = 0 \/ Val(l.price) <= c.price_max * 100))

\* The parsed listings of the requests of h that returned content, in
\* request order; with keep, those of them the price bounds let through.
RECURSIVE ParsedOf(_, _, _, _)
ParsedOf(v, c, h, keep) ==
    IF h = <<>> THEN <<>>
    ELSE LET batch == IF Head(h) = 0 THEN <<>> ELSE Parse(v, Pages[Head(h)])
             kept == IF keep
                     THEN SelectSeq(batch, LAMBDA l : WithinConfiguredBounds(l, c))
                     ELSE batch
         IN kept \o ParsedOf(v, c, Tail(h), keep)

\* A retrieval that returned no content never ends the run: the run ends
\* early only when a retriever raised.
FailureNeverAborts ==
    /\ pc = "aborted" => lastFetch = [strategy |-> "requests", outcome |-> "other"]
    /\ pc \in {"post", "done"} /\ cfg.geo_ok => Len(hist) = cfg.nq * cfg.pages

\* C1 as stated: over N page requests of which any subset returns no
\* content, the run is not aborted, a failed request adds no listing, and the
\* collected listings are exactly the parsed listings of the successful
\* requests, in request order.
C1_FailureIsolation_AsStated ==
    /\ FailureNeverAborts
    /\ Cores(rows) = Cores(ParsedOf(variant, cfg, hist, FALSE))

\* C1 amended: as C1, the collected listings being the parsed listings of the
\* successful requests that the configured price bounds let through (all of
\* them where no bound is configured or the variant has no price filter).
C1_FailureIsolation ==
    /\ FailureNeverAborts
    /\ Cores(rows) = Cores(ParsedOf(variant, cfg, hist, variant = "margin"))

\* C1 witness: three requests, the second returned no content, the first and
\* the third did and their listings are collected.
C1_Witness ==
    /\ pc = "done"
    /\ Len(hist) = 3
    /\ hist[1] # 0 /\ hist[2] = 0 /\ hist[3] # 0
    /\ Len(rows) >= 3

\* The rows that reach deduplication (the geo variant filters by radius first).
Survivors ==
    IF variant = "geo" THEN SelectSeq(rows, LAMBDA l : RadiusKeep(l, cfg.radius_km))
    ELSE rows

FirstWithUrl(ls, u) == ls[CHOOSE i \in 1..Len(ls) :
                            ls[i].url = u /\ \A j \in 1..(i - 1) : ls[j].url # u]

\* C2: the final result holds each distinct url of the collected listings
\* exactly once, with the fields of the earliest-seen listing of that url.
C2_Deduplication ==
    pc = "done" =>
      /\ \A i, j \in 1..Len(result) : result[i].url = result[j].url => i = j
      /\ \A i \in 1..Len(Survivors) : \E j \in 1..Len(result) :
             result[j].url = Survivors[i].url
      /\ \A j \in 1..Len(result) :
             Core(result[j]) = Core(FirstWithUrl(Survivors, result[j].url))

\* C3: a request is issued to the origin only when the last network event
\* was not a request, that is, a throttle sleep lies between any two
\* consecutive requests.
C3_PauseBetweenRequests == [][nreq' > nreq => lastNet # "request"]_vars

\* C4: whenever the rendering strategy has returned, with content or none,
\* the browser and the context it launched are closed; no session is open
\* between two requests or after the run.
C4_SessionReleased == ~session.browser /\ ~session.context

\* C4 witness: the rendering strategy returned a failure after page.goto
\* raised in a launched session, and that session is closed.
C4_Witness ==
    /\ lastFetch = [strategy |-> "browser", outcome |-> "goto"]
    /\ cfg.pw_ok
    /\ IsNone(html)
    /\ nreq > 0
    /\ session = Closed

\* C5: whatever the network or browser call does, the retriever returns
\* content or the failure value: no exception reaches the run loop.
C5_NoExceptionEscapes == pc # "aborted"

\* C7 helpers: a may stand before b in an ascending (descending) column in
\* which absent keys come last.
AscOk(a, b) == IsNone(b) \/ (~IsNone(a) /\ Val(a) <= Val(b))
DescOk(a, b) == IsNone(b) \/ (~IsNone(a) /\ Val(a) >= Val(b))

Count(x, ls) == Cardinality({i \in 1..Len(ls) : ls[i] = x})

\* a row without its rounded margin
Unrounded(l) == [l EXCEPT !.est_margin = None]

\* the rows handed to sort_values, without their rounded margin
PreSort ==
    CASE variant = "margin" -> rows
      [] OTHER -> DropDuplicates(Survivors, {})

\* the rounded margin of a row is its margin to the nearest cent
RoundedToCent(l) ==
    /\ IsNone(l.est_margin) <=> IsNone(l.margin)
    /\ ~IsNone(l.margin) =>
         /\ 100 * Val(l.est_margin) - Val(l.margin) <= 50
         /\ Val(l.margin) - 100 * Val(l.est_margin) <= 50

NothingDroppedBySort ==
    LET sorted == [i \in 1..Len(result) |-> Unrounded(result[i])]
    IN /\ Len(sorted) = Len(PreSort)
       /\ \A i \in 1..Len(PreSort) : Count(PreSort[i], sorted) = Count(PreSort[i], PreSort)
       /\ variant = "margin" => \A i \in 1..Len(result) : RoundedToCent(result[i])

\* C7 as stated: the result is sorted by ascending price without valuation
\* and by descending estimated margin with it, absent keys last, and the sort
\* drops nothing.
C7_FinalOrdering_AsStated ==
    pc = "done" =>
      /\ NothingDroppedBySort
      /\ \A i, j \in 1..Len(result) : i < j =>
           IF variant = "margin"
           THEN DescOk(result[i].est_margin, result[j].est_margin)
           ELSE AscOk(result[i].price, result[j].price)

\* C7 amended: the result is sorted by descending estimated margin in the
\* valuation variant, by ascending price in the simple variant, and by
\* ascending distance and then ascending price in the geographic variant; in
\* each case absent keys of a column come last in it, and the sort drops
\* nothing.
C7_FinalOrdering ==
    pc = "done" =>
      /\ NothingDroppedBySort
      /\ \A i, j \in 1..Len(result) : i < j =>
           CASE variant = "margin" ->
                  DescOk(result[i].est_margin, result[j].est_margin)
             [] variant = "geo" ->
                  /\ AscOk(result[i].dist, result[j].dist)
                  /\ result[i].dist = result[j].dist =>
                       AscOk(result[i].price, result[j].price)
             [] OTHER -> AscOk(result[i].price, result[j].price)

\* C7 witness: a geographic result of at least three rows in which a nearer
\* listing stands before a cheaper one and a listing without distance is last.
C7_Witness ==
    /\ pc = "done"
    /\ variant = "geo"
    /\ Len(result) >= 3
    /\ \E i, j \in 1..Len(result) :
         /\ i < j
         /\ ~IsNone(result[i].price) /\ ~IsNone(result[j].price)
         /\ Val(result[i].price) > Val(result[j].price)
         /\ ~IsNone(result[j].dist)
    /\ IsNone(result[Len(result)].dist)

\* the listings parsed from the requests of the run that returned content
ParsedListings(v) ==
    UNION {{Parse(v, Pages[hist[k]])[i] : i \in 1..Len(Parse(v, Pages[hist[k]]))} :
             k \in {x \in 1..Len(hist) : hist[x] # 0}}

RowCores(ls) == {Core(ls[i]) : i \in 1..Len(ls)}

\* C8: with price bounds configured, a parsed listing is kept exactly when
\* its price is unknown or within the configured bounds; so unknown prices
\* are never filtered out and no known price outside the bounds is in the
\* result.
C8_PriceFilter ==
    variant = "margin" =>
      /\ \A l \in ParsedListings("margin") :
           Core(l) \in RowCores(rows) <=> WithinConfiguredBounds(l, cfg)
      /\ \A i \in 1..Len(result) : WithinConfiguredBounds(result[i], cfg)
      /\ pc = "done" => RowCores(result) = RowCores(rows)

\* C8 witness: a finished run with both bounds configured whose pages held a
\* listing above the maximum, one below the minimum, one of unknown price
\* (kept) and one within the bounds (kept).
C8_Witness ==
    /\ pc = "done"
    /\ variant = "margin"
    /\ cfg.price_min # 0 /\ cfg.price_max # 0
    /\ \E l \in ParsedListings("margin") :
         ~IsNone(l.price) /\ Val(l.price) > cfg.price_max * 100
    /\ \E l \in ParsedListings("margin") :
         ~IsNone(l.price) /\ Val(l.price) < cfg.price_min * 100
    /\ \E i \in 1..Len(result) : IsNone(result[i].price)
    /\ \E i \in 1..Len(result) : ~IsNone(result[i].price)

Urls(ls) == {ls[i].url : i \in 1..Len(ls)}

\* distance unknown, or at most the radius (recorded distance, in 1/10 km)
UnknownOrWithinRadius(l, c) == IsNone(l.dist) \/ Val(l.dist) <= c.radius_km * 10

\* distance unknown, or at most the radius (distance to the reference point
\* as haversine_km gives it, in 1/100 km)
UnknownOrWithinExactRadius(l, c) == ~(l.haslat /\ l.haslon) \/ l.d <= c.radius_km * 100

\* C9 as stated: a listing is kept by the radius filter exactly when its
\* distance to the reference point is unknown (latitude or longitude missing)
\* or at most the radius: a listing without latitude passes whatever the
\* radius, and no listing farther than the radius is in the result.
C9_RadiusFilter_AsStated ==
    variant = "geo" /\ pc = "done" /\ cfg.geo_ok =>
      /\ \A u \in Urls(rows) :
           u \in Urls(result) <=>
             \E i \in 1..Len(rows) :
                rows[i].url = u /\ UnknownOrWithinExactRadius(rows[i], cfg)
      /\ \A i \in 1..Len(result) : UnknownOrWithinExactRadius(result[i], cfg)
      /\ \A i \in 1..Len(rows) : ~rows[i].haslat => rows[i].url \in Urls(result)

\* C9 amended: as C9, the distance compared with the radius being the
\* listing's recorded distance, that is the distance to the reference point
\* rounded to one decimal (0.1 km).
C9_RadiusFilter ==
    variant = "geo" /\ pc = "done" /\ cfg.geo_ok =>
      /\ \A i \in 1..Len(rows) :
           /\ IsNone(rows[i].dist) <=> ~(rows[i].haslat /\ rows[i].haslon)
           /\ ~IsNone(rows[i].dist) =>
                /\ 10 * Val(rows[i].dist) - rows[i].d <= 5
                /\ rows[i].d - 10 * Val(rows[i].dist) <= 5
      /\ \A u \in Urls(rows) :
           u \in Urls(result) <=>
             \E i \in 1..Len(rows) : rows[i].url = u /\ UnknownOrWithinRadius(rows[i], cfg)
      /\ \A i \in 1..Len(result) : UnknownOrWithinRadius(result[i], cfg)
      /\ \A i \in 1..Len(rows) : ~rows[i].haslat => rows[i].url \in Urls(result)

\* C9 witness: a finished geographic run that kept a listing without
\* latitude and a listing whose distance rounds down to the radius, and left
\* out one beyond the radius.
C9_Witness ==
    /\ variant = "geo" /\ pc = "done" /\ cfg.geo_ok
    /\ \E i \in 1..Len(result) :
         ~IsNone(result[i].dist) /\ result[i].d > cfg.radius_km * 100
    /\ \E i \in 1..Len(result) : ~result[i].haslat /\ result[i].tier = 1
    /\ \E i \in 1..Len(result) : ~IsNone(result[i].dist)
    /\ \E i \in 1..Len(rows) :
         /\ ~IsNone(rows[i].dist)
         /\ Val(rows[i].dist) > cfg.radius_km * 10
         /\ rows[i].url \notin Urls(result)

\* C6: the markup tier is attempted exactly when the structured-data tier
\* yielded no listing (block absent, undecodable, without the path, or a
\* record raising), and parse always returns.
C6_TierSelection ==
    ~IsNone(pOut) => (Val(pOut).tier2 <=> Val(pOut).n1 = 0)

\* C10: a numeric origin price p, raw or under "value", is normalized to p
\* when p <= 10000 and to p/100 when p > 10000 (in cents: p*100, p).
C10_MinorUnitHeuristic ==
    ~IsNone(pOut) =>
      \A i \in 1..Val(pOut).n1 :
        pIn.ads[i].price.t \in {"num", "dict"} =>
          Val(pOut).out[i].price =
            Some(IF pIn.ads[i].price.v <= 10000
                 THEN pIn.ads[i].price.v * 100 ELSE pIn.ads[i].price.v)

\* C11: a listing whose price is absent leaves valuation with negotiated
\* price and estimated margin absent, whatever parts were detected, whatever
\* their value and whatever the two percentages; the row reports the margin
\* as absent, not as an amount.
C11_MarginAbsence ==
    ~IsNone(vOut) /\ ~Val(vOut).raised /\ IsNone(vIn.l.price) =>
      /\ IsNone(Val(vOut).row.negotiated)
      /\ IsNone(Val(vOut).row.margin)
      /\ IsNone(Val(vOut).row.est_margin)

\* C11 witness: a listing of unknown price in which parts worth something
\* were detected has been valuated with percentages other than the defaults.
C11_Witness ==
    /\ ~IsNone(vOut) /\ ~Val(vOut).raised
    /\ IsNone(vIn.l.price)
    /\ Val(vOut).row.parts_value > 0
    /\ vIn.negotiation_pct = 30 /\ vIn.dismantle_bonus_pct = 0
    /\ IsNone(Val(vOut).row.est_margin)

\* the matches of a rule in the text of a listing, whatever its case
Matches(title, r) ==
    CountMatches([i \in 1..Len(title) + 1 |->
                    IF i <= Len(title) THEN Lower(title[i]) ELSE "\n"], r.re)

\* The value of the parts a title names: over the rules of the registry,
\* the number of matches times the unit value of the rule's key.
RECURSIVE ValueOfParts(_, _, _)
ValueOfParts(title, patterns, price_map) ==
    IF patterns = <<>> THEN 0
    ELSE Matches(title, Head(patterns))
           * (IF Head(patterns).key \in DOMAIN price_map
              THEN price_map[Head(patterns).key] ELSE 0)
         + ValueOfParts(title, Tail(patterns), price_map)

\* The three derived fields of one listing agree with its title and price
\* under the run's parameters (money in 1/10000 euro, prices in cents).
DerivedConsistent(l, patterns, price_map, negotiation_pct, dismantle_bonus_pct) ==
    /\ l.parts_value = ValueOfParts(l.title, patterns, price_map)
    /\ ~IsNone(l.price) => l.negotiated = Some(Val(l.price) * (100 - negotiation_pct))
    /\ IsNone(l.price) => IsNone(l.negotiated)
    /\ ~IsNone(l.negotiated) =>
         l.margin = Some(l.parts_value * 100 * (100 + dismantle_bonus_pct)
                         - Val(l.negotiated))
    /\ IsNone(l.negotiated) => IsNone(l.margin)

\* C12: on every listing a valuation run has collected, the total value of
\* the parts is the sum of count times unit value, the negotiated price is
\* price x (1 - negotiation/100) whenever the price is defined (a price of 0
\* included), and the margin is parts value x (1 + bonus/100) - negotiated
\* price.
C12_DerivedFieldsConsistent ==
    variant = "margin" =>
      \A i \in 1..Len(rows) :
        DerivedConsistent(rows[i], DEFAULT_PART_PATTERNS, DEFAULT_PART_VALUES,
                          DefaultNegotiationPct, DefaultDismantleBonusPct)

\* whether a text is empty once trimmed
Blank(q) ==
    \A i \in 1..Len(q) : q[i] = " "

\* C13: no search locator is built for a query that is empty after trimming,
\* and a run whose queries are all empty or whitespace sends no request to
\* the origin.
C13_EmptyQueryRejected ==
    /\ \A i \in 1..Len(urls) : urls[i].text # <<>>
    /\ (\A k \in 1..Len(cfg.queries) : Blank(cfg.queries[k])) => nreq = 0

\* the price token a locator must carry for the configured bounds (0: none)
ExpectedPriceToken(price_min, price_max) ==
    IF price_min = 0 /\ price_max = 0 THEN <<>>
    ELSE <<[lo |-> IF price_min = 0 THEN <<>> ELSE <<price_min>>,
            hi |-> IF price_max = 0 THEN <<>> ELSE <<price_max>>]>>

\* C14: the locator of a valuation run carries the range min-max when both
\* bounds are configured, the one bound when one is (an open upper bound for
\* the minimum alone, the upper bound for the maximum alone), and no price
\* token when none is.
C14_PriceBoundEncoding ==
    variant = "margin" =>
      \A i \in 1..Len(urls) :
        LET tok == urls[i].price
            want == ExpectedPriceToken(cfg.price_min, cfg.price_max)
        IN /\ (tok = <<>>) <=> (want = <<>>)
           /\ tok # <<>> /\ want # <<>> =>
                /\ tok[1].hi = want[1].hi
                /\ want[1].lo # <<>> => tok[1].lo = want[1].lo[1]

\* the rules of a registry that compile
ValidRules(patterns) == SelectSeq(patterns, LAMBDA r : r.kind = "ok")

\* C15: with rules that do not compile in the registry, detection does not
\* raise, leaves their keys out, gives every rule that compiles the count it
\* has without them, and leaves out the keys without a match.
C15_MalformedPatternIsolation ==
    ~IsNone(vOut) =>
      LET found == Val(vOut).row.parts
          valid == ValidRules(vIn.patterns)
      IN /\ ~Val(vOut).raised
         /\ \A i \in 1..Len(vIn.patterns) :
              vIn.patterns[i].kind # "ok" => vIn.patterns[i].key \notin DOMAIN found
         /\ \A i \in 1..Len(valid) :
              IF Matches(vIn.l.title, valid[i]) = 0
              THEN valid[i].key \notin DOMAIN found
              ELSE /\ valid[i].key \in DOMAIN found
                   /\ found[valid[i].key] = Matches(vIn.l.title, valid[i])
         /\ \A k \in DOMAIN found : found[k] > 0

\* a url that starts with the site origin
IsAbsolute(u) == Len(u) > 0 /\ u[1] = Origin

\* C16: every listing returned by parse, from either tier, has an absolute
\* url (a relative one given by the origin is resolved against the site
\* origin), and valuation and aggregation leave the url as parse gave it.
C16_UrlAbsolute ==
    /\ \A i \in 1..Len(rows) : IsAbsolute(rows[i].url)
    /\ \A i \in 1..Len(result) : IsAbsolute(result[i].url)
    /\ \A i \in 1..Len(rows) :
         rows[i].url = ParsedOf(variant, cfg, hist, variant = "margin")[i].url
    /\ \A i \in 1..Len(result) : \E j \in 1..Len(rows) : result[i].url = rows[j].url

\* the positions of the listings without a url
UrlLess(ls) == {i \in 1..Len(ls) : ls[i].url = <<>>}

\* C20: a structured-data record with neither url field gets the empty url,
\* and in the variants that deduplicate by url at most one listing without
\* url, the first one met, is in the result of a run.
C20_UrlLessCollapse ==
    /\ \A k \in 1..Len(hist) : hist[k] # 0 =>
         LET t == ParseTrace(variant, Pages[hist[k]])
         IN \A i \in 1..t.n1 :
              (Pages[hist[k]].ads[i].url = <<>> /\ Pages[hist[k]].ads[i].shareLink = <<>>)
                => t.out[i].url = <<>>
    /\ variant \in {"simple", "geo"} /\ pc = "done" =>
         /\ Cardinality(UrlLess(result)) <= 1
         /\ UrlLess(Survivors) # {} =>
              \E i \in UrlLess(result) :
                 Core(result[i]) = Core(FirstWithUrl(Survivors, <<>>))

\* C20 witness: a finished deduplicating run collected two different
\* listings without url and its result holds one.
C20_Witness ==
    /\ variant \in {"simple", "geo"} /\ pc = "done"
    /\ \E i, j \in UrlLess(rows) : Core(rows[i]) # Core(rows[j])
    /\ Cardinality(UrlLess(result)) = 1

\* C17 as stated: when geocoding does not resolve the city, no reference
\* point is defaulted and the radius filter is skipped, while every page is
\* still retrieved and the result is the unfiltered listings, deduplicated
\* and sorted.
C17_GeocodeFailure_AsStated ==
    variant = "geo" /\ ~cfg.geo_ok /\ pc = "done" =>
      /\ Len(urls) = cfg.pages
      /\ Len(hist) = cfg.pages
      /\ \A i \in 1..Len(rows) : IsNone(rows[i].dist)
      /\ result = sort_values("distance_price", DropDuplicates(rows, {}))

\* C17 amended: when geocoding does not resolve the city, no reference point
\* is defaulted and no radius filter is applied, because the run ends there:
\* no locator is built, no request is sent, nothing is retrieved, parsed or
\* aggregated, and the stored result is left as it was.
C17_GeocodeFailure ==
    variant = "geo" /\ ~cfg.geo_ok =>
      /\ pc \in {"geocode", "done"}
      /\ urls = <<>> /\ nreq = 0
      /\ hist = <<>> /\ rows = <<>>
      /\ result = <<>>
      /\ session = Closed

\* C17 witness: a geographic run whose city was not resolved has ended.
C17_Witness ==
    /\ variant = "geo" /\ ~cfg.geo_ok
    /\ pc = "done"
    /\ cfg.pages > 1
    /\ ~Blank(cfg.queries[1])

\* C18: the locators are built for the (query, page) combinations in order,
\* queries as typed and pages 1..pages within a query, each once; a request
\* is retrieved, parsed and collected before the next locator is built; and
\* the run ends only after the last combination, whatever the retrievals did.
C18_SequentialRun ==
    cfg.geo_ok =>
      /\ \A i \in 1..Len(urls) :
           /\ urls[i].page = ((i - 1) % cfg.pages) + 1
           /\ urls[i].text = Strip(cfg.qlist[((i - 1) \div cfg.pages) + 1])
      /\ Len(urls) <= cfg.nq * cfg.pages
      /\ Len(hist) <= Len(urls) /\ Len(urls) <= Len(hist) + 1
      /\ pc = "fetch" => Len(hist) = Len(urls)
      /\ pc \in {"post", "done", "aborted"} =>
           Len(urls) = cfg.nq * cfg.pages /\ Len(hist) = cfg.nq * cfg.pages

\* C19: the records parse returns come from one tier, all from the
\* structured data or all from the cards, also when the structured-data
\* tier raised after it had extracted records.
C19_NoTierMixing ==
    ~IsNone(pOut) =>
      \A i, j \in 1..Len(Val(pOut).out) : Val(pOut).out[i].tier = Val(pOut).out[j].tier

====
